---- MODULE Spec2Model ----
(***************************************************************************)
(* Loan payment allocation and lifecycle engine of the pawnshop back       *)
(* office: Transaction (models/transaction_model.py) and                   *)
(* TransactionService (services/transaction_service.py).                   *)
(*                                                                         *)
(* Money is counted in whole dollars (the code uses Python floats; every   *)
(* amount of the model is an integer, for which float arithmetic is        *)
(* exact).  A calendar date is the number of days since 2023-01-01.        *)
(***************************************************************************)
EXTENDS Integers, Sequences, FiniteSets, TLC

VARIABLES
    today,        \* date.today() of the server clock
    loans,        \* stored PAWN transactions, indexed by loan id
    item_status,  \* stored Item.status of the pledged item
    txns,         \* stored payment / forfeit transactions, in save order
    result,       \* outcome of the last service call
    pc,           \* interleaved requests: position of each request
    req,          \* interleaved requests: input of each request
    local,        \* interleaved requests: in-memory objects of each request
    cal_in,       \* calendar check: original_due_date under test
    cal_n,        \* calendar check: months_to_add under test
    cal_out       \* calendar check: date returned

vars == <<today, loans, item_status, txns, result, pc, req, local,
          cal_in, cal_n, cal_out>>

(***************************************************************************)
(* Bounds of the model.                                                    *)
(***************************************************************************)
MaxPayments == 2       \* payment transactions saved in one behaviour
MaxMonths == 12        \* largest months_to_add of the calendar check
NoDate == 0 - 1000     \* None in an Optional[date] field

(***************************************************************************)
(* datetime.date: proleptic Gregorian calendar, as day numbers.            *)
(***************************************************************************)
IsLeap(y) == (y % 4 = 0 /\ y % 100 # 0) \/ (y % 400 = 0)

DaysInMonth(y, m) ==
    IF m = 2 THEN (IF IsLeap(y) THEN 29 ELSE 28)
    ELSE IF m \in {4, 6, 9, 11} THEN 30 ELSE 31

DaysInYear(y) == IF IsLeap(y) THEN 366 ELSE 365

RECURSIVE DaysBeforeYear(_)
DaysBeforeYear(y) ==
    IF y <= 2023 THEN 0 ELSE DaysBeforeYear(y - 1) + DaysInYear(y - 1)

RECURSIVE DaysBeforeMonth(_, _)
DaysBeforeMonth(y, m) ==
    IF m <= 1 THEN 0 ELSE DaysBeforeMonth(y, m - 1) + DaysInMonth(y, m - 1)

\* date(y, m, d)
MkDate(y, m, d) == DaysBeforeYear(y) + DaysBeforeMonth(y, m) + (d - 1)

\* The year of day number n counted from January 1 of year y, and the day
\* number within that year
RECURSIVE SplitYear(_, _)
SplitYear(n, y) ==
    IF n < DaysInYear(y) THEN <<y, n>> ELSE SplitYear(n - DaysInYear(y), y + 1)

\* The month of day number n counted from the first of month m of year y, and
\* the day number within that month
RECURSIVE SplitMonth(_, _, _)
SplitMonth(n, y, m) ==
    IF n < DaysInMonth(y, m) THEN <<m, n>>
    ELSE SplitMonth(n - DaysInMonth(y, m), y, m + 1)

\* <<date.year, date.month, date.day>>
YMD(dt) ==
    LET yn == SplitYear(dt, 2023)
        md == SplitMonth(yn[2], yn[1], 1)
    IN  <<yn[1], md[1], md[2] + 1>>

Min(a, b) == IF a <= b THEN a ELSE b


(***************************************************************************)
(* Transaction (models/transaction_model.py)                               *)
(***************************************************************************)
LateFeeAmount == 10

\* Transaction.is_loan_active (a stored loan is always a PAWN transaction)
is_loan_active(loan) == loan.loan_status = "active"

\* Transaction.is_overdue, days_overdue, is_within_grace_period: all three
\* read date.today(), passed here as td
is_overdue(loan, td) == td > loan.current_due_date

days_overdue(loan, td) ==
    IF ~is_overdue(loan, td) THEN 0 ELSE td - loan.current_due_date

is_within_grace_period(loan, td) ==
    IF ~is_overdue(loan, td) THEN TRUE ELSE days_overdue(loan, td) <= 7

\* Transaction.calculate_late_fee
calculate_late_fee(loan, td) ==
    IF ~is_overdue(loan, td) \/ is_within_grace_period(loan, td)
    THEN 0
    ELSE LateFeeAmount

\* Transaction.calculate_amount_owed_at_date
calculate_amount_owed_at_date(loan, target_date) ==
    IF ~is_loan_active(loan) \/ loan.current_due_date = NoDate
       \/ loan.monthly_interest_fee = 0
    THEN loan.current_balance
    ELSE IF target_date >= loan.current_due_date
         THEN loan.current_balance + loan.monthly_interest_fee
         ELSE loan.current_balance

\* Mutant: one month is added as the number of days of the current month
NextMonthDate_AddDays(next_date) ==
    LET ymd == YMD(next_date)
    IN  next_date + DaysInMonth(ymd[1], ymd[2])

\* One pass of the loop of calculate_next_due_date_from_original: replace()
\* into the next month (it raises ValueError when the day does not exist
\* there), and on ValueError clamp the day to that month's end
NextMonthDate(next_date) ==
    LET ymd == YMD(next_date)
        next_month == IF ymd[2] = 12 THEN 1 ELSE ymd[2] + 1
        next_year == IF ymd[2] = 12 THEN ymd[1] + 1 ELSE ymd[1]
        last_day == DaysInMonth(next_year, next_month)
    IN  IF ymd[3] <= last_day
        THEN MkDate(next_year, next_month, ymd[3])
        ELSE MkDate(next_year, next_month, Min(ymd[3], last_day))

\* Transaction.calculate_next_due_date_from_original
RECURSIVE calculate_next_due_date_from_original(_, _)
calculate_next_due_date_from_original(original_due_date, months_to_add) ==
    IF months_to_add <= 0
    THEN original_due_date
    ELSE NextMonthDate(
             calculate_next_due_date_from_original(original_due_date,
                                                   months_to_add - 1))

\* Transaction.calculate_forfeit_date
calculate_forfeit_date(original_due_date) ==
    calculate_next_due_date_from_original(original_due_date, 3) + 14

\* The months_since_original of process_payment_allocation
months_since_original(loan) ==
    LET cur == YMD(loan.current_due_date)
        orig == YMD(loan.original_due_date)
    IN  ((cur[1] - orig[1]) * 12 + (cur[2] - orig[2])) + 1

\* The allocation dict as initialised, before any portion is assigned
InitialAllocation(loan, payment_amount) ==
    [raised |-> FALSE,
     payment_amount |-> payment_amount,
     interest_payment |-> 0,
     principal_payment |-> 0,
     late_fee_payment |-> 0,
     overpayment |-> 0,
     payment_type |-> "",
     new_balance |-> loan.current_balance,
     months_extended |-> 0,
     new_due_date |-> loan.current_due_date]

\* A ValueError raised by process_payment_allocation
AllocationError(loan, payment_amount) ==
    [InitialAllocation(loan, payment_amount) EXCEPT !.raised = TRUE]

\* Mutant: the interest is not taken off before the principal is paid
AllocateInterestAndPrincipal_InterestNotDeducted(loan, alloc, remaining_payment) ==
    IF remaining_payment >= loan.monthly_interest_fee
    THEN LET rest == remaining_payment - loan.monthly_interest_fee
             a1 == [alloc EXCEPT !.interest_payment = loan.monthly_interest_fee,
                                 !.months_extended = 1]
         IN  IF rest > 0
             THEN IF rest >= loan.current_balance
                  THEN [a1 EXCEPT !.principal_payment = loan.current_balance,
                                  !.new_balance = 0,
                                  !.payment_type = "full_redemption",
                                  !.overpayment = rest - loan.current_balance]
                  ELSE [a1 EXCEPT !.principal_payment = remaining_payment,
                                  !.new_balance = loan.current_balance
                                                    - remaining_payment,
                                  !.payment_type = "renewal_with_principal"]
             ELSE [a1 EXCEPT !.payment_type = "interest_only_renewal"]
    ELSE alloc

\* Mutant: full redemption only when the remainder exceeds the balance
AllocateInterestAndPrincipal_StrictRedemption(loan, alloc, remaining_payment) ==
    IF remaining_payment >= loan.monthly_interest_fee
    THEN LET rest == remaining_payment - loan.monthly_interest_fee
             a1 == [alloc EXCEPT !.interest_payment = loan.monthly_interest_fee,
                                 !.months_extended = 1]
         IN  IF rest > 0
             THEN IF rest > loan.current_balance
                  THEN [a1 EXCEPT !.principal_payment = loan.current_balance,
                                  !.new_balance = 0,
                                  !.payment_type = "full_redemption",
                                  !.overpayment = rest - loan.current_balance]
                  ELSE [a1 EXCEPT !.principal_payment = rest,
                                  !.new_balance = loan.current_balance - rest,
                                  !.payment_type = "renewal_with_principal"]
             ELSE [a1 EXCEPT !.payment_type = "interest_only_renewal"]
    ELSE alloc

\* Steps 2 and 3 of process_payment_allocation: interest, then principal
AllocateInterestAndPrincipal(loan, alloc, remaining_payment) ==
    IF remaining_payment >= loan.monthly_interest_fee
    THEN LET rest == remaining_payment - loan.monthly_interest_fee
             a1 == [alloc EXCEPT !.interest_payment = loan.monthly_interest_fee,
                                 !.months_extended = 1]
         IN  IF rest > 0
             THEN IF rest >= loan.current_balance
                  THEN [a1 EXCEPT !.principal_payment = loan.current_balance,
                                  !.new_balance = 0,
                                  !.payment_type = "full_redemption",
                                  !.overpayment = rest - loan.current_balance]
                  ELSE [a1 EXCEPT !.principal_payment = rest,
                                  !.new_balance = loan.current_balance - rest,
                                  !.payment_type = "renewal_with_principal"]
             ELSE [a1 EXCEPT !.payment_type = "interest_only_renewal"]
    ELSE alloc

\* The new due date of process_payment_allocation, always from the original
NewDueDate(loan, alloc) ==
    IF alloc.months_extended > 0
    THEN calculate_next_due_date_from_original(
             loan.original_due_date,
             months_since_original(loan) + alloc.months_extended)
    ELSE alloc.new_due_date

\* Transaction.process_payment_allocation; td is date.today(), which
\* calculate_late_fee reads
process_payment_allocation(loan, payment_amount, payment_date, td) ==
    IF loan.monthly_interest_fee = 0 \/ loan.current_balance = 0
    THEN AllocationError(loan, payment_amount)
    ELSE IF payment_amount < loan.monthly_interest_fee
    THEN AllocationError(loan, payment_amount)
    ELSE LET late_fee == calculate_late_fee(loan, td)
             fee_payment == IF late_fee > 0
                            THEN Min(payment_amount, late_fee) ELSE 0
             a0 == [InitialAllocation(loan, payment_amount)
                       EXCEPT !.late_fee_payment = fee_payment]
             a1 == AllocateInterestAndPrincipal(loan, a0,
                                                payment_amount - fee_payment)
         IN  [a1 EXCEPT !.new_due_date = NewDueDate(loan, a1)]

(***************************************************************************)
(* Inputs of the requests.                                                 *)
(***************************************************************************)
Principals == {20}
Fees == {4, 15}
Amounts == {4, 15, 20, 35, 45}
\* pawn requests arrive on the first day; original_due_date is then Jan 31
StartDays == {MkDate(2023, 1, 1)}
\* the days on which the clock is observed, counted from the first day: the
\* due date, the last day of its grace period, the day after, a day past the
\* grace period of the first renewal, final_forfeit_date and the day after
DayOffsets == {0, 30, 37, 38, 100, 135, 136}
Days == {s + o : s \in StartDays, o \in DayOffsets}
\* payment_date is the day of the request or a back-dated one
PayDateLags == {0, 8}
\* loan ids a request can name; create_pawn_loan requests are made for the
\* loans of StoredIds, and for those of LoanIds where loans on one item are
\* studied
LoanIds == {1, 2}
StoredIds == {1}

NoAlloc ==
    [raised |-> TRUE, payment_amount |-> 0, interest_payment |-> 0,
     principal_payment |-> 0, late_fee_payment |-> 0, overpayment |-> 0,
     payment_type |-> "", new_balance |-> 0, months_extended |-> 0,
     new_due_date |-> NoDate]

NoLoan ==
    [principal_amount |-> 0, monthly_interest_fee |-> 0, current_balance |-> 0,
     original_due_date |-> NoDate, current_due_date |-> NoDate,
     final_forfeit_date |-> NoDate, renewals_count |-> 0,
     last_payment_date |-> NoDate, loan_status |-> "none"]

NoTxn == [transaction_type |-> "none", loan_id |-> 0]

NoResult ==
    [op |-> "none", outcome |-> "none", err |-> "", alloc |-> NoAlloc,
     scenarios |-> <<>>]

\* An exception leaves the service call
Raise(op, err) ==
    [op |-> op, outcome |-> "error", err |-> err, alloc |-> NoAlloc,
     scenarios |-> <<>>]

\* The service call returns
Return(op, alloc) ==
    [op |-> op, outcome |-> "ok", err |-> "", alloc |-> alloc,
     scenarios |-> <<>>]

\* The keys of the dict process_payment_allocation returns
AllocationKeys ==
    {"payment_amount", "interest_payment", "principal_payment",
     "late_fee_payment", "overpayment", "payment_type", "new_balance",
     "months_extended", "new_due_date"}

\* The required fields of PaymentAllocationOut.  schemas/transaction_schema.py
\* defines the class twice; the name is bound to the second definition
PaymentAllocationOutRequired ==
    {"months_covered", "partial_month_ratio", "next_due_date",
     "payment_status", "extension_days", "amount_per_month",
     "total_months_paid"}

\* PaymentAllocationOut(**allocation) raises ValidationError when the dict
\* lacks a required field
ResponseRaises == ~(PaymentAllocationOutRequired \subseteq AllocationKeys)

\* The end of process_payment, after its saves: "Create result" raises, or
\* the call returns.  The allocation that was applied stays on record
Respond(op, alloc) ==
    IF ResponseRaises
    THEN [op |-> op, outcome |-> "error", err |-> "validation_error",
          alloc |-> alloc, scenarios |-> <<>>]
    ELSE Return(op, alloc)

(***************************************************************************)
(* TransactionService (services/transaction_service.py)                    *)
(***************************************************************************)
\* The Transaction that create_pawn_loan builds on pawn_date
NewPawnLoan(principal_amount, monthly_interest_fee, pawn_date) ==
    LET due_date == pawn_date + 30
        forfeit_date == due_date + 105
    IN  [principal_amount |-> principal_amount,
         monthly_interest_fee |-> monthly_interest_fee,
         current_balance |-> principal_amount,
         original_due_date |-> due_date,
         current_due_date |-> due_date,
         final_forfeit_date |-> forfeit_date,
         renewals_count |-> 0,
         last_payment_date |-> NoDate,
         loan_status |-> "active"]

\* create_pawn_loan
CreatePawnLoan(customer_ok, principal_amount, monthly_interest_fee) ==
    /\ UNCHANGED <<today, item_status, txns, pc, req, local,
                   cal_in, cal_n, cal_out>>
    /\ \/ /\ ~customer_ok
          /\ result' = Raise("create_pawn_loan", "customer")
          /\ UNCHANGED loans
       \/ /\ customer_ok
          /\ item_status # "active"
          /\ result' = Raise("create_pawn_loan", "item_not_available")
          /\ UNCHANGED loans
       \/ /\ customer_ok
          /\ item_status = "active"
          /\ loans' = Append(loans,
                 NewPawnLoan(principal_amount, monthly_interest_fee, today))
          /\ result' = Return("create_pawn_loan", NoAlloc)

\* A create_pawn_loan request, made while the loan it would store is one of
\* ids
CreateRequest(ids) ==
    \E c \in BOOLEAN, p \in Principals, f \in Fees :
        /\ (c /\ item_status = "active") => Len(loans) + 1 \in ids
        /\ CreatePawnLoan(c, p, f)

\* The transaction type and loan status process_payment derives from an
\* allocation
PaymentTransactionType(alloc) ==
    IF alloc.payment_type = "full_redemption" THEN "redemption"
    ELSE IF alloc.principal_payment > 0 THEN "partial_payment"
    ELSE "renewal"

NewLoanStatus(alloc) ==
    IF alloc.payment_type = "full_redemption" THEN "redeemed" ELSE "active"

\* The payment Transaction process_payment builds (its type and its loan;
\* the amounts it carries are never read back)
PaymentTransaction(loan_id, alloc) ==
    [transaction_type |-> PaymentTransactionType(alloc), loan_id |-> loan_id]

\* Mutant: the update also moves final_forfeit_date along with the due date
UpdatedLoan_MovesForfeitDate(loan, alloc, payment_date) ==
    [loan EXCEPT !.current_balance = alloc.new_balance,
                 !.current_due_date = alloc.new_due_date,
                 !.final_forfeit_date = alloc.new_due_date + 105,
                 !.loan_status = NewLoanStatus(alloc),
                 !.last_payment_date = payment_date,
                 !.renewals_count = IF alloc.months_extended > 0
                                    THEN @ + 1 ELSE @]

\* The in-memory loan after "Update the original loan" of process_payment
UpdatedLoan(loan, alloc, payment_date) ==
    [loan EXCEPT !.current_balance = alloc.new_balance,
                 !.current_due_date = alloc.new_due_date,
                 !.loan_status = NewLoanStatus(alloc),
                 !.last_payment_date = payment_date,
                 !.renewals_count = IF alloc.months_extended > 0
                                    THEN @ + 1 ELSE @]

\* Mutant: the cutoff check also rejects a payment dated on final_forfeit_date
PaymentError_CutoffOffByOne(db, loan_id, payment_amount, payment_date, td) ==
    IF loan_id \notin DOMAIN db THEN "loan_not_found"
    ELSE IF ~is_loan_active(db[loan_id]) THEN "loan_not_active"
    ELSE IF db[loan_id].final_forfeit_date = NoDate THEN "no_forfeit_date"
    ELSE IF payment_date >= db[loan_id].final_forfeit_date THEN "beyond_grace_period"
    ELSE IF process_payment_allocation(db[loan_id], payment_amount,
                                       payment_date, td).raised
    THEN "allocation"
    ELSE ""

\* The error process_payment raises before it writes anything, "" if none:
\* lookup, active check, forfeiture window, allocation
PaymentError(db, loan_id, payment_amount, payment_date, td) ==
    IF loan_id \notin DOMAIN db THEN "loan_not_found"
    ELSE IF ~is_loan_active(db[loan_id]) THEN "loan_not_active"
    ELSE IF db[loan_id].final_forfeit_date = NoDate THEN "no_forfeit_date"
    ELSE IF payment_date > db[loan_id].final_forfeit_date THEN "beyond_grace_period"
    ELSE IF process_payment_allocation(db[loan_id], payment_amount,
                                       payment_date, td).raised
    THEN "allocation"
    ELSE ""

\* process_payment, run from its lookup to its end without another request
\* in between
ProcessPayment(loan_id, payment_amount, payment_date) ==
    /\ UNCHANGED <<today, pc, req, local, cal_in, cal_n, cal_out>>
    /\ \E err \in {PaymentError(loans, loan_id, payment_amount,
                                payment_date, today)} :
       \/ /\ err # ""
          /\ result' = Raise("process_payment", err)
          /\ UNCHANGED <<loans, item_status, txns>>
       \/ /\ err = ""
          /\ Len(txns) < MaxPayments
          /\ \E alloc \in {process_payment_allocation(
                               loans[loan_id], payment_amount,
                               payment_date, today)} :
                /\ item_status' = IF NewLoanStatus(alloc) = "redeemed"
                                  THEN "redeemed" ELSE item_status
                /\ txns' = Append(txns, PaymentTransaction(loan_id, alloc))
                /\ loans' = [loans EXCEPT ![loan_id] =
                                UpdatedLoan(@, alloc, payment_date)]
                /\ result' = Respond("process_payment", alloc)

\* Mutant: the eligibility check is skipped and every loan found is forfeited
MarkLoanForfeited_Unchecked(loan_id) ==
    /\ UNCHANGED <<today, pc, req, local, cal_in, cal_n, cal_out>>
    /\ \/ /\ loan_id \notin DOMAIN loans
          /\ result' = Raise("mark_loan_forfeited", "loan_not_found")
          /\ UNCHANGED <<loans, item_status, txns>>
       \/ /\ loan_id \in DOMAIN loans
          /\ Len(txns) < MaxPayments
          /\ loans' = [loans EXCEPT ![loan_id].loan_status = "forfeited"]
          /\ item_status' = "forfeited"
          /\ txns' = Append(txns, [transaction_type |-> "forfeit",
                                   loan_id |-> loan_id])
          /\ result' = Return("mark_loan_forfeited", NoAlloc)

\* mark_loan_forfeited: Transaction defines no check_forfeit_eligibility, so
\* the call at "Check if eligible for forfeiture" raises AttributeError for
\* every loan that is found
MarkLoanForfeited(loan_id) ==
    /\ UNCHANGED <<today, loans, item_status, txns, pc, req, local,
                   cal_in, cal_n, cal_out>>
    /\ result' = Raise("mark_loan_forfeited",
                       IF loan_id \notin DOMAIN loans
                       THEN "loan_not_found" ELSE "attribute_error")

\* One LoanScenarioOut, built from the allocation of one payment amount.
\* Money is whole dollars here
LoanScenario(scenario_name, payment_amount, alloc, principal, resulting_balance, is_full_redemption) ==
    [scenario_name |-> scenario_name,
     payment_amount |-> payment_amount,
     interest |-> alloc.interest_payment,
     late_fee |-> alloc.late_fee_payment,
     principal |-> principal,
     resulting_balance |-> resulting_balance,
     new_due_date |-> alloc.new_due_date,
     is_full_redemption |-> is_full_redemption]

\* scenarios.append(...) inside try / except ValueError: pass
AppendScenario(scenarios, alloc, scenario) ==
    IF alloc.raised THEN scenarios ELSE Append(scenarios, scenario)

\* The list get_payment_scenarios builds for a loan that is found and active.
\* current_balance * 0.5 is taken in whole dollars
PaymentScenarios(loan, payment_date, td) ==
    LET interest_amount == loan.monthly_interest_fee
        late_fee == calculate_late_fee(loan, td)
        minimum_payment == interest_amount + late_fee
        min_allocation ==
            process_payment_allocation(loan, minimum_payment, payment_date, td)
        current_balance == loan.current_balance
        half_principal_payment == minimum_payment + (current_balance \div 2)
        half_allocation ==
            process_payment_allocation(loan, half_principal_payment,
                                       payment_date, td)
        full_payment == minimum_payment + current_balance
        full_allocation ==
            process_payment_allocation(loan, full_payment, payment_date, td)
        s1 == AppendScenario(<<>>, min_allocation,
                  LoanScenario("Interest Only (Minimum Payment)",
                               minimum_payment, min_allocation, 0,
                               min_allocation.new_balance, FALSE))
        s2 == AppendScenario(s1, half_allocation,
                  LoanScenario("Interest + 50% Principal",
                               half_principal_payment, half_allocation,
                               half_allocation.principal_payment,
                               half_allocation.new_balance,
                               half_allocation.payment_type
                                   = "full_redemption"))
    IN  AppendScenario(s2, full_allocation,
            LoanScenario("Full Redemption", full_payment, full_allocation,
                         full_allocation.principal_payment, 0, TRUE))

\* get_payment_scenarios returns its list
ReturnScenarios(scenarios) ==
    [op |-> "get_payment_scenarios", outcome |-> "ok", err |-> "",
     alloc |-> NoAlloc, scenarios |-> scenarios]

\* get_payment_scenarios.  The handler passes the query's payment_date, and
\* the service takes date.today() when there is none
GetPaymentScenarios(loan_id, payment_date) ==
    /\ UNCHANGED <<today, loans, item_status, txns, pc, req, local,
                   cal_in, cal_n, cal_out>>
    /\ result' =
          IF loan_id \notin DOMAIN loans
          THEN Raise("get_payment_scenarios", "loan_not_found")
          ELSE IF ~is_loan_active(loans[loan_id])
          THEN Raise("get_payment_scenarios", "loan_not_active")
          ELSE ReturnScenarios(
                   PaymentScenarios(loans[loan_id], payment_date, today))

\* The server clock moves on to a later observed day
Tick ==
    /\ \E d \in Days : d > today /\ today' = d
    /\ UNCHANGED <<loans, item_status, txns, result, pc, req, local,
                   cal_in, cal_n, cal_out>>

(***************************************************************************)
(* Requests served one at a time.                                          *)
(***************************************************************************)
Procs == {1, 2}

NoReq == [loan_id |-> 0, payment_amount |-> 0, payment_date |-> NoDate]

NoLocal == [loan |-> NoLoan, payment |-> NoTxn, alloc |-> NoAlloc]

IdleRequests ==
    /\ pc = [p \in Procs |-> "idle"]
    /\ req = [p \in Procs |-> NoReq]
    /\ local = [p \in Procs |-> NoLocal]

NoCalendarCheck == cal_in = NoDate /\ cal_n = 0 /\ cal_out = NoDate

Init ==
    /\ today \in StartDays
    /\ loans = <<>>
    /\ item_status = "active"
    /\ txns = <<>>
    /\ result = NoResult
    /\ IdleRequests
    /\ NoCalendarCheck

Next ==
    \/ /\ today \in StartDays
       /\ CreateRequest(StoredIds)
    \/ \E l \in LoanIds, a \in Amounts, lag \in PayDateLags :
           ProcessPayment(l, a, today - lag)
    \/ \E l \in LoanIds : MarkLoanForfeited(l)
    \/ \E l \in LoanIds, lag \in PayDateLags :
           GetPaymentScenarios(l, today - lag)
    \/ Tick

Spec == Init /\ [][Next]_vars

(***************************************************************************)
(* Interleaved requests.  process_payment is a coroutine: another request  *)
(* can run at each await (find_one, save).  Between two awaits the code is *)
(* one step.  An awaited save can raise (the database is unreachable).     *)
(***************************************************************************)
\* await Transaction.find_one, then the checks, the allocation and the
\* update of the in-memory loan, up to the next await
PPStart(p, loan_id, payment_amount, payment_date) ==
    /\ pc[p] = "idle"
    /\ req' = [req EXCEPT ![p] = [loan_id |-> loan_id,
                                  payment_amount |-> payment_amount,
                                  payment_date |-> payment_date]]
    /\ UNCHANGED <<today, loans, item_status, txns, result,
                   cal_in, cal_n, cal_out>>
    /\ \E err \in {PaymentError(loans, loan_id, payment_amount,
                                payment_date, today)} :
       \/ /\ err # ""
          /\ pc' = [pc EXCEPT ![p] = "rejected"]
          /\ UNCHANGED local
       \/ /\ err = ""
          /\ \E alloc \in {process_payment_allocation(
                               loans[loan_id], payment_amount,
                               payment_date, today)} :
                /\ local' = [local EXCEPT ![p] =
                       [loan |-> UpdatedLoan(loans[loan_id], alloc, payment_date),
                        payment |-> PaymentTransaction(loan_id, alloc),
                        alloc |-> alloc]]
                /\ pc' = [pc EXCEPT ![p] =
                       IF NewLoanStatus(alloc) = "redeemed"
                       THEN "item_find" ELSE "save_payment"]

\* await Item.find_one; item.status = REDEEMED on the in-memory item
PPItemFind(p) ==
    /\ pc[p] = "item_find"
    /\ pc' = [pc EXCEPT ![p] = "item_save"]
    /\ UNCHANGED <<today, loans, item_status, txns, result, req, local,
                   cal_in, cal_n, cal_out>>

\* await item.save()
PPItemSave(p) ==
    /\ pc[p] = "item_save"
    /\ item_status' = "redeemed"
    /\ pc' = [pc EXCEPT ![p] = "save_payment"]
    /\ UNCHANGED <<today, loans, txns, result, req, local,
                   cal_in, cal_n, cal_out>>

\* await payment_transaction.save()
PPSavePayment(p) ==
    /\ pc[p] = "save_payment"
    /\ txns' = Append(txns, local[p].payment)
    /\ pc' = [pc EXCEPT ![p] = "save_loan"]
    /\ UNCHANGED <<today, loans, item_status, result, req, local,
                   cal_in, cal_n, cal_out>>

\* await loan.save(): the whole in-memory document replaces the stored one;
\* then "Create result", with no await in between
PPSaveLoan(p) ==
    /\ pc[p] = "save_loan"
    /\ loans' = [loans EXCEPT ![req[p].loan_id] = local[p].loan]
    /\ pc' = [pc EXCEPT ![p] = IF ResponseRaises THEN "raised" ELSE "done"]
    /\ UNCHANGED <<today, item_status, txns, result, req, local,
                   cal_in, cal_n, cal_out>>

\* The awaited save raises; process_payment logs and re-raises
PPSaveFails(p) ==
    /\ pc[p] \in {"item_save", "save_payment", "save_loan"}
    /\ pc' = [pc EXCEPT ![p] = "failed"]
    /\ UNCHANGED <<today, loans, item_status, txns, result, req, local,
                   cal_in, cal_n, cal_out>>

NextConc ==
    \/ /\ today \in StartDays
       /\ \A p \in Procs : pc[p] = "idle"
       /\ CreateRequest(StoredIds)
    \/ \E p \in Procs, l \in LoanIds, a \in Amounts, lag \in PayDateLags :
           PPStart(p, l, a, today - lag)
    \/ \E p \in Procs : PPItemFind(p)
    \/ \E p \in Procs : PPItemSave(p)
    \/ \E p \in Procs : PPSavePayment(p)
    \/ \E p \in Procs : PPSaveLoan(p)
    \/ \E p \in Procs : PPSaveFails(p)

SpecConc == Init /\ [][NextConc]_vars

(***************************************************************************)
(* calculate_next_due_date_from_original as a function of its inputs.      *)
(***************************************************************************)
CalDates == MkDate(2023, 1, 1)..MkDate(2024, 12, 31)

InitCal ==
    /\ today \in StartDays
    /\ loans = <<>>
    /\ item_status = "active"
    /\ txns = <<>>
    /\ result = NoResult
    /\ IdleRequests
    /\ cal_in \in CalDates
    /\ cal_n \in 0..MaxMonths
    /\ cal_out = NoDate

CalcNextDue ==
    /\ cal_out = NoDate
    /\ cal_out' = calculate_next_due_date_from_original(cal_in, cal_n)
    /\ UNCHANGED <<today, loans, item_status, txns, result, pc, req, local,
                   cal_in, cal_n>>

NextCal == CalcNextDue

SpecCal == InitCal /\ [][NextCal]_vars

(***************************************************************************)
(* Loans on one item.  All loans of the model are on the same item; here   *)
(* create_pawn_loan requests go on after the first loan, on one day.       *)
(***************************************************************************)
NextItem ==
    \/ /\ today \in StartDays
       /\ CreateRequest(LoanIds)
    \/ \E l \in LoanIds, a \in Amounts, lag \in PayDateLags :
           ProcessPayment(l, a, today - lag)

SpecItem == Init /\ [][NextItem]_vars

(***************************************************************************)
(* Properties.                                                             *)
(***************************************************************************)
\* process_payment_allocation has returned an allocation and process_payment
\* has applied it
PaymentAccepted == result.op = "process_payment" /\ ~result.alloc.raised

\* C1 Money conservation: whenever process_payment_allocation returns, the
\* late fee, interest, principal and overpayment portions add up to the
\* payment amount.
C1_MoneyConservation ==
    PaymentAccepted =>
        result.alloc.late_fee_payment + result.alloc.interest_payment
          + result.alloc.principal_payment + result.alloc.overpayment
        = result.alloc.payment_amount

\* C2 Minimum payment rejection: a process_payment call whose amount is
\* below monthly_interest_fee plus the late fee due on the payment date
\* raises, and leaves the stored loan and the saved transactions as they were.
C2_MinimumPaymentRejection ==
    [][\A l \in DOMAIN loans, a \in Amounts, lag \in PayDateLags :
          (/\ result'.op = "process_payment"
           /\ a < loans[l].monthly_interest_fee
                    + calculate_late_fee(loans[l], today - lag)
           /\ ProcessPayment(l, a, today - lag))
          => (/\ result'.outcome = "error"
              /\ UNCHANGED <<loans, txns>>)]_vars

\* C3 Forfeiture cutoff: a payment dated after final_forfeit_date is rejected
\* whatever the amount, with loan, item and transactions unchanged; a payment
\* dated on final_forfeit_date is not rejected by the cutoff check.
C3_ForfeitureCutoff ==
    [][\A l \in DOMAIN loans, a \in Amounts, lag \in PayDateLags :
          (/\ result'.op = "process_payment"
           /\ today - lag >= loans[l].final_forfeit_date
           /\ ProcessPayment(l, a, today - lag))
          => (/\ (today - lag > loans[l].final_forfeit_date
                    => (/\ result'.outcome = "error"
                        /\ UNCHANGED <<loans, item_status, txns>>))
              /\ (today - lag = loans[l].final_forfeit_date
                    => result'.err # "beyond_grace_period")
              /\ ((today - lag = loans[l].final_forfeit_date
                     /\ is_loan_active(loans[l])
                     /\ a >= loans[l].monthly_interest_fee
                     /\ Len(txns) < MaxPayments)
                    => (~result'.alloc.raised /\ txns' # txns)))]_vars

\* A payment after final_forfeit_date on a loan that is still active has just
\* been rejected by the cutoff check.
C3_Witness ==
    /\ result.op = "process_payment"
    /\ result.err = "beyond_grace_period"
    /\ \E l \in DOMAIN loans :
          is_loan_active(loans[l]) /\ today > loans[l].final_forfeit_date

Terminal(loan) == loan.loan_status \in {"redeemed", "forfeited"}

\* C4 Terminal states: once a loan is REDEEMED or FORFEITED, no call that
\* follows changes its status, balance, due date or renewal count, and every
\* process_payment and mark_loan_forfeited call on it raises before it
\* writes anything.
C4_TerminalStates ==
    [][\A l \in DOMAIN loans :
          Terminal(loans[l])
          => (/\ loans'[l].loan_status = loans[l].loan_status
              /\ loans'[l].current_balance = loans[l].current_balance
              /\ loans'[l].current_due_date = loans[l].current_due_date
              /\ loans'[l].renewals_count = loans[l].renewals_count
              /\ \A a \in Amounts, lag \in PayDateLags :
                    (result'.op = "process_payment"
                       /\ ProcessPayment(l, a, today - lag))
                    => (/\ result'.outcome = "error"
                        /\ UNCHANGED <<loans, item_status, txns>>)
              /\ (result'.op = "mark_loan_forfeited" /\ MarkLoanForfeited(l))
                    => (/\ result'.outcome = "error"
                        /\ UNCHANGED <<loans, item_status, txns>>))]_vars

\* A payment on a redeemed loan has just been rejected.
C4_Witness ==
    /\ result.op = "process_payment"
    /\ result.err = "loan_not_active"
    /\ \E l \in DOMAIN loans :
          loans[l].loan_status = "redeemed" /\ loans[l].current_balance = 0

\* The loan as create_pawn_loan stored it, from the fields no payment changes
LoanAsCreated(loan) ==
    NewPawnLoan(loan.principal_amount, loan.monthly_interest_fee,
                loan.original_due_date - 30)

\* The stored loan after one process_payment request served alone
ServedAlone(loan, r, td) ==
    IF PaymentError(<<loan>>, 1, r.payment_amount, r.payment_date, td) # ""
    THEN loan
    ELSE UpdatedLoan(loan,
                     process_payment_allocation(loan, r.payment_amount,
                                                r.payment_date, td),
                     r.payment_date)

SameLoanState(a, b) ==
    /\ a.current_balance = b.current_balance
    /\ a.current_due_date = b.current_due_date
    /\ a.renewals_count = b.renewals_count

\* C5 No lost update: when two interleaved process_payment requests on the
\* same loan have both finished, the stored balance, due date and renewal
\* count are those of one of the two serial orders.
C5_NoLostUpdate ==
    (/\ \A p \in Procs : pc[p] \in {"done", "raised", "rejected"}
     /\ \A p \in Procs : req[p].loan_id = 1
     /\ 1 \in DOMAIN loans)
    => LET l0 == LoanAsCreated(loans[1])
       IN  \/ SameLoanState(loans[1],
                  ServedAlone(ServedAlone(l0, req[1], today), req[2], today))
           \/ SameLoanState(loans[1],
                  ServedAlone(ServedAlone(l0, req[2], today), req[1], today))

\* C6 All-or-nothing: when every request made so far has failed (it was
\* rejected, one of its saves raised, or it raised after its saves), loan, item
\* and payment transactions are as they were before the requests.
C6_AllOrNothing ==
    (/\ \A p \in Procs : pc[p] \in {"idle", "rejected", "failed", "raised"}
     /\ 1 \in DOMAIN loans)
    => (/\ loans[1] = LoanAsCreated(loans[1])
        /\ item_status = "active"
        /\ txns = <<>>)

\* The date n calendar months after dt, the day clamped to the target month
AddWholeMonths(dt, n) ==
    LET ymd == YMD(dt)
        total == ymd[1] * 12 + (ymd[2] - 1) + n
        y == total \div 12
        m == (total % 12) + 1
    IN  MkDate(y, m, Min(ymd[3], DaysInMonth(y, m)))

\* C7 Anchoring invariant: the current due date of every loan is
\* original_due_date plus k whole months for some k >= 0.
C7_AnchoringInvariant ==
    \A l \in DOMAIN loans :
        \E k \in 0..(2 * MaxPayments + 2) :
            loans[l].current_due_date =
                AddWholeMonths(loans[l].original_due_date, k)

\* C8 Balance bound: the stored balance of a loan is between 0 and the
\* principal, and no step increases it.
C8_BalanceBound ==
    [][\A l \in DOMAIN loans :
          /\ 0 <= loans'[l].current_balance
          /\ loans'[l].current_balance <= loans'[l].principal_amount
          /\ loans'[l].current_balance <= loans[l].current_balance]_vars

\* C9 Balance monotonicity: an accepted allocation never raises the balance,
\* makes it 0 exactly when it is classified full_redemption, and
\* process_payment stores REDEEMED exactly then, ACTIVE otherwise.
C9_BalanceMonotonicity ==
    [][\A l \in DOMAIN loans, a \in Amounts, lag \in PayDateLags :
          (/\ result'.op = "process_payment"
           /\ ~result'.alloc.raised
           /\ result'.alloc.payment_amount = a
           /\ ProcessPayment(l, a, today - lag))
          => (/\ result'.alloc.new_balance <= loans[l].current_balance
              /\ (result'.alloc.new_balance = 0
                    <=> result'.alloc.payment_type = "full_redemption")
              /\ loans'[l].loan_status =
                    IF result'.alloc.payment_type = "full_redemption"
                    THEN "redeemed" ELSE "active")]_vars

\* A payment has just redeemed a loan in full.
C9_Witness ==
    /\ PaymentAccepted
    /\ result.alloc.payment_type = "full_redemption"
    /\ \E l \in DOMAIN loans :
          loans[l].loan_status = "redeemed" /\ loans[l].current_balance = 0

\* C10 Whole-month addition: calculate_next_due_date_from_original(n) is the
\* date n calendar months after original_due_date whose day is the original
\* day, clamped to the length of the target month.
C10_WholeMonthAddition ==
    cal_out # NoDate => cal_out = AddWholeMonths(cal_in, cal_n)

\* C11 Single-step month-end clamp and rollover: each month the function adds
\* takes the date into the calendar month that follows (December into January
\* of the next year), on the same day, clamped to the last day of that month.
C11_SingleStepClamp ==
    (cal_out # NoDate /\ cal_n >= 1)
    => LET before == YMD(calculate_next_due_date_from_original(cal_in,
                                                               cal_n - 1))
           after == YMD(cal_out)
       IN  /\ after[2] = (before[2] % 12) + 1
           /\ after[1] = before[1] + (IF before[2] = 12 THEN 1 ELSE 0)
           /\ after[3] = Min(before[3], DaysInMonth(after[1], after[2]))

\* One month added to January 31 of a leap year has given February 29.
C11_Witness ==
    /\ cal_in = MkDate(2024, 1, 31)
    /\ cal_n = 1
    /\ cal_out = MkDate(2024, 2, 29)

\* C12 Forfeit date derivation: the loan create_pawn_loan stores has
\* original_due_date 30 days after the creation date, and final_forfeit_date
\* 14 days after original_due_date plus 3 calendar months (day clamped).
C12_ForfeitDateDerivation ==
    [][\A c \in BOOLEAN, p \in Principals, f \in Fees :
          (/\ Len(loans') = Len(loans) + 1
           /\ CreatePawnLoan(c, p, f))
          => LET loan == loans'[Len(loans')]
             IN  /\ loan.original_due_date = today + 30
                 /\ loan.final_forfeit_date =
                        AddWholeMonths(loan.original_due_date, 3) + 14]_vars

\* C13 Date anchors are immutable: no process_payment or mark_loan_forfeited
\* call changes original_due_date, final_forfeit_date, principal_amount or
\* monthly_interest_fee of a stored loan.
C13_AnchorsImmutable ==
    [][\A l \in DOMAIN loans :
          /\ l \in DOMAIN loans'
          /\ loans'[l].original_due_date = loans[l].original_due_date
          /\ loans'[l].final_forfeit_date = loans[l].final_forfeit_date
          /\ loans'[l].principal_amount = loans[l].principal_amount
          /\ loans'[l].monthly_interest_fee = loans[l].monthly_interest_fee]_vars

\* A loan has been renewed twice, with part of its principal paid, and a
\* mark_loan_forfeited call on it has been made.
C13_Witness ==
    /\ result.op = "mark_loan_forfeited"
    /\ \E l \in DOMAIN loans :
          /\ loans[l].renewals_count = 2
          /\ loans[l].current_balance < loans[l].principal_amount
          /\ loans[l].current_due_date > loans[l].original_due_date
          /\ loans[l].original_due_date = MkDate(2023, 1, 31)
          /\ loans[l].final_forfeit_date = MkDate(2023, 5, 16)

\* The loan may be forfeited on day td: a balance is left, it is neither
\* redeemed nor forfeited, and final_forfeit_date has passed
ForfeitEligible(loan, td) ==
    /\ loan.current_balance > 0
    /\ ~Terminal(loan)
    /\ td > loan.final_forfeit_date

\* C14 Forfeiture gating: mark_loan_forfeited makes a loan FORFEITED only
\* when the loan is eligible on the day of the call; in every other case it
\* raises and changes neither loan nor item.
C14_ForfeitureGating ==
    [][\A l \in LoanIds :
          (/\ result'.op = "mark_loan_forfeited"
           /\ MarkLoanForfeited(l))
          => /\ (l \in DOMAIN loans /\ loans'[l].loan_status = "forfeited"
                                     /\ loans[l].loan_status # "forfeited")
                   => ForfeitEligible(loans[l], today)
             /\ (l \notin DOMAIN loans \/ ~ForfeitEligible(loans[l], today))
                   => (/\ result'.outcome = "error"
                       /\ UNCHANGED <<loans, item_status, txns>>)]_vars

\* mark_loan_forfeited has just been refused on an active loan whose
\* final_forfeit_date has not passed.
C14_Witness ==
    /\ result.op = "mark_loan_forfeited"
    /\ result.outcome = "error"
    /\ \E l \in DOMAIN loans :
          /\ is_loan_active(loans[l])
          /\ loans[l].current_balance > 0
          /\ today <= loans[l].final_forfeit_date
    /\ item_status = "active"

\* C15 Forfeiture is reachable: mark_loan_forfeited on an active loan with a
\* balance left whose final_forfeit_date has passed makes the loan FORFEITED
\* and the item FORFEITED, and saves a FORFEIT transaction.
C15_ForfeitureReachable ==
    [][\A l \in DOMAIN loans :
          (/\ result'.op = "mark_loan_forfeited"
           /\ is_loan_active(loans[l])
           /\ loans[l].current_balance > 0
           /\ today > loans[l].final_forfeit_date
           /\ MarkLoanForfeited(l))
          => (/\ loans'[l].loan_status = "forfeited"
              /\ item_status' = "forfeited"
              /\ Len(txns') = Len(txns) + 1
              /\ txns'[Len(txns')].transaction_type = "forfeit")]_vars

\* C16 Determinism: for a stored loan, an amount and a payment date,
\* process_payment_allocation gives the same result on whatever day it is
\* evaluated.
C16_Determinism ==
    \A l \in DOMAIN loans, a \in Amounts, d \in Days, td \in Days :
        process_payment_allocation(loans[l], a, d, td)
            = process_payment_allocation(loans[l], a, d, today)

\* C17 Amount owed projection: for an active loan and a target date,
\* calculate_amount_owed_at_date is the balance, plus the monthly interest fee
\* from the due date on, plus the flat late fee when the target date is more
\* than 7 days past the due date.
C17_AmountOwedProjection ==
    \A l \in DOMAIN loans, target_date \in Days :
        is_loan_active(loans[l])
        => calculate_amount_owed_at_date(loans[l], target_date)
             = loans[l].current_balance
               + (IF target_date >= loans[l].current_due_date
                  THEN loans[l].monthly_interest_fee ELSE 0)
               + (IF target_date - loans[l].current_due_date > 7
                  THEN LateFeeAmount ELSE 0)

\* What a payment leaves after the late fee it paid and one monthly interest
\* fee
AfterFeeAndInterest(loan, alloc) ==
    alloc.payment_amount - alloc.late_fee_payment - loan.monthly_interest_fee

\* C18 Full redemption: when what is left after the late fee and one monthly
\* interest fee reaches the balance, the allocation pays the whole balance,
\* leaves balance 0, records the excess as overpayment and is classified
\* full_redemption, and process_payment stores loan and item as REDEEMED.
C18_FullRedemption ==
    [][\A l \in DOMAIN loans, a \in Amounts, lag \in PayDateLags :
          (/\ result'.op = "process_payment"
           /\ ~result'.alloc.raised
           /\ result'.alloc.payment_amount = a
           /\ AfterFeeAndInterest(loans[l], result'.alloc)
                 >= loans[l].current_balance
           /\ ProcessPayment(l, a, today - lag))
          => (/\ result'.alloc.principal_payment = loans[l].current_balance
              /\ result'.alloc.interest_payment = loans[l].monthly_interest_fee
              /\ result'.alloc.new_balance = 0
              /\ result'.alloc.overpayment =
                    AfterFeeAndInterest(loans[l], result'.alloc)
                      - loans[l].current_balance
              /\ result'.alloc.payment_type = "full_redemption"
              /\ loans'[l].loan_status = "redeemed"
              /\ loans'[l].current_balance = 0
              /\ item_status' = "redeemed"
              /\ txns'[Len(txns')].transaction_type = "redemption")]_vars

\* A payment of exactly balance plus interest, no late fee due, has redeemed
\* the loan with no overpayment.
C18_Witness ==
    /\ PaymentAccepted
    /\ result.alloc.late_fee_payment = 0
    /\ result.alloc.overpayment = 0
    /\ result.alloc.payment_type = "full_redemption"
    /\ item_status = "redeemed"
    /\ \E l \in DOMAIN loans :
          /\ loans[l].loan_status = "redeemed"
          /\ result.alloc.payment_amount =
                loans[l].principal_amount + loans[l].monthly_interest_fee

\* C19 Partial payment rollover: when what is left after the late fee and one
\* monthly interest fee is above 0 and below the balance, the allocation pays
\* the interest fee and puts the rest on the principal, is classified
\* renewal_with_principal with no overpayment, and process_payment keeps the
\* loan ACTIVE with one renewal more.
C19_PartialPaymentRollover ==
    [][\A l \in DOMAIN loans, a \in Amounts, lag \in PayDateLags :
          (/\ result'.op = "process_payment"
           /\ ~result'.alloc.raised
           /\ result'.alloc.payment_amount = a
           /\ AfterFeeAndInterest(loans[l], result'.alloc) > 0
           /\ AfterFeeAndInterest(loans[l], result'.alloc)
                 < loans[l].current_balance
           /\ ProcessPayment(l, a, today - lag))
          => (/\ result'.alloc.interest_payment = loans[l].monthly_interest_fee
              /\ result'.alloc.principal_payment =
                    AfterFeeAndInterest(loans[l], result'.alloc)
              /\ result'.alloc.new_balance =
                    loans[l].current_balance
                      - AfterFeeAndInterest(loans[l], result'.alloc)
              /\ result'.alloc.payment_type = "renewal_with_principal"
              /\ result'.alloc.overpayment = 0
              /\ loans'[l].loan_status = "active"
              /\ loans'[l].current_balance = result'.alloc.new_balance
              /\ loans'[l].renewals_count = loans[l].renewals_count + 1)]_vars

\* A second partial payment, made with a late fee due, has been applied.
C19_Witness ==
    /\ PaymentAccepted
    /\ result.alloc.payment_type = "renewal_with_principal"
    /\ result.alloc.late_fee_payment = LateFeeAmount
    /\ \E l \in DOMAIN loans :
          /\ loans[l].loan_status = "active"
          /\ loans[l].renewals_count = 2
          /\ loans[l].current_balance = result.alloc.new_balance
          /\ loans[l].current_balance > 0

\* C20 Interest-only renewal: a payment that leaves exactly the monthly
\* interest fee after the late fee is classified interest_only_renewal, with
\* no principal paid, no overpayment and the balance unchanged; on a loan never
\* renewed and paid on its due date, process_payment adds one renewal and
\* stores original_due_date plus 2 months as the due date.
C20_InterestOnlyRenewal ==
    [][\A l \in DOMAIN loans, a \in Amounts, lag \in PayDateLags :
          (/\ result'.op = "process_payment"
           /\ ~result'.alloc.raised
           /\ result'.alloc.payment_amount = a
           /\ a - result'.alloc.late_fee_payment = loans[l].monthly_interest_fee
           /\ ProcessPayment(l, a, today - lag))
          => (/\ result'.alloc.payment_type = "interest_only_renewal"
              /\ result'.alloc.principal_payment = 0
              /\ result'.alloc.overpayment = 0
              /\ result'.alloc.new_balance = loans[l].current_balance
              /\ loans'[l].current_balance = loans[l].current_balance
              /\ (/\ loans[l].current_due_date = loans[l].original_due_date
                  /\ today - lag = loans[l].current_due_date)
                    => (/\ loans'[l].renewals_count =
                              loans[l].renewals_count + 1
                        /\ loans'[l].current_due_date =
                              AddWholeMonths(loans[l].original_due_date, 2)))]_vars

\* C21 Advance payment: an applied payment of k times monthly_interest_fee,
\* k >= 2, made with no late fee due, is taken as k months of interest: it
\* extends the loan by k months and pays nothing on the principal.
C21_AdvancePayment ==
    [][\A l \in DOMAIN loans, a \in Amounts, lag \in PayDateLags :
          (/\ result'.op = "process_payment"
           /\ ~result'.alloc.raised
           /\ result'.alloc.payment_amount = a
           /\ calculate_late_fee(loans[l], today) = 0
           /\ \E k \in 2..MaxMonths : a = k * loans[l].monthly_interest_fee
           /\ ProcessPayment(l, a, today - lag))
          => (\E k \in 2..MaxMonths :
                 /\ a = k * loans[l].monthly_interest_fee
                 /\ result'.alloc.months_extended = k
                 /\ result'.alloc.interest_payment = a
                 /\ result'.alloc.principal_payment = 0
                 /\ loans'[l].current_balance = loans[l].current_balance
                 /\ loans'[l].loan_status = "active")]_vars

\* Calendar months from one date to a later one
MonthsBetween(from_date, to_date) ==
    LET f == YMD(from_date)
        t == YMD(to_date)
    IN  (t[1] - f[1]) * 12 + (t[2] - f[2])

\* monthsSinceOriginal, taken as 1 when no month has passed
MonthsSinceOriginalMin1(loan) ==
    LET n == MonthsBetween(loan.original_due_date, loan.current_due_date)
    IN  IF n = 0 THEN 1 ELSE n

\* C22 New due date formula: every applied payment that leaves a balance
\* stores as due date original_due_date plus (monthsSinceOriginal + 1) whole months, where
\* monthsSinceOriginal is the number of calendar months from original_due_date
\* to the due date before the payment, taken as 1 when it is 0.
C22_NewDueDateFormula ==
    [][\A l \in DOMAIN loans, a \in Amounts, lag \in PayDateLags :
          (/\ result'.op = "process_payment"
           /\ ~result'.alloc.raised
           /\ result'.alloc.payment_amount = a
           /\ result'.alloc.new_balance > 0
           /\ ProcessPayment(l, a, today - lag))
          => (/\ result'.alloc.new_due_date =
                    AddWholeMonths(loans[l].original_due_date,
                                   MonthsSinceOriginalMin1(loans[l]) + 1)
              /\ loans'[l].current_due_date = result'.alloc.new_due_date)]_vars

\* C23 One month per renewal: every applied payment that leaves a balance
\* pays exactly monthly_interest_fee as interest, extends by one month, and
\* moves the stored due date into the calendar month after the month of the
\* due date before it.
C23_OneMonthPerRenewal ==
    [][\A l \in DOMAIN loans, a \in Amounts, lag \in PayDateLags :
          (/\ result'.op = "process_payment"
           /\ ~result'.alloc.raised
           /\ result'.alloc.payment_amount = a
           /\ result'.alloc.new_balance > 0
           /\ ProcessPayment(l, a, today - lag))
          => (/\ result'.alloc.interest_payment = loans[l].monthly_interest_fee
              /\ result'.alloc.months_extended = 1
              /\ MonthsBetween(loans[l].current_due_date,
                               loans'[l].current_due_date) = 1)]_vars

\* C24 Late fee follows the payment date: the late-fee portion of every
\* applied payment is the flat fee, capped at the amount paid, when
\* payment_date is more than 7 days after the due date, and 0 otherwise,
\* whatever the day on which the request is processed.
C24_LateFeeFollowsPaymentDate ==
    [][\A l \in DOMAIN loans, a \in Amounts, lag \in PayDateLags :
          (/\ result'.op = "process_payment"
           /\ ~result'.alloc.raised
           /\ result'.alloc.payment_amount = a
           /\ ProcessPayment(l, a, today - lag))
          => result'.alloc.late_fee_payment =
                IF today - lag > loans[l].current_due_date + 7
                THEN Min(a, LateFeeAmount)
                ELSE 0]_vars

\* C25 The allocation engine re-checks the cutoff: for a payment_date later
\* than final_forfeit_date process_payment_allocation raises, so that
\* process_payment applies no allocation and get_payment_scenarios returns no
\* scenario for such a date.
C25_EngineRechecksCutoff ==
    [][\A l \in DOMAIN loans, lag \in PayDateLags :
          /\ (/\ result'.op = "get_payment_scenarios"
              /\ today - lag > loans[l].final_forfeit_date
              /\ GetPaymentScenarios(l, today - lag))
             => result'.scenarios = <<>>
          /\ \A a \in Amounts :
                (/\ result'.op = "process_payment"
                 /\ today - lag > loans[l].final_forfeit_date
                 /\ ProcessPayment(l, a, today - lag))
                => (/\ result'.alloc.raised
                    /\ process_payment_allocation(
                           loans[l], a, today - lag, today).raised)]_vars

\* The payments recorded on a loan
RecordedPayments(loan_id) ==
    {i \in DOMAIN txns : /\ txns[i].loan_id = loan_id
                         /\ txns[i].transaction_type # "forfeit"}

\* C26 Renewal counter: the renewals_count of every loan equals the number of
\* payments recorded on it, and every applied payment moves current_due_date
\* forward and adds exactly 1 to renewals_count.
C26_RenewalCounter ==
    [][/\ \A l \in DOMAIN loans' :
             loans'[l].renewals_count = Cardinality(RecordedPayments(l))'
       /\ \A l \in DOMAIN loans, a \in Amounts, lag \in PayDateLags :
             (/\ result'.op = "process_payment"
              /\ ~result'.alloc.raised
              /\ result'.alloc.payment_amount = a
              /\ ProcessPayment(l, a, today - lag))
             => (/\ loans'[l].renewals_count = loans[l].renewals_count + 1
                 /\ loans'[l].current_due_date
                       > loans[l].current_due_date)]_vars

\* C27 Due date never passes the forfeiture cutoff: every ACTIVE loan has
\* current_due_date <= final_forfeit_date.
C27_DueDateWithinCutoff ==
    \A l \in DOMAIN loans :
        is_loan_active(loans[l])
            => loans[l].current_due_date <= loans[l].final_forfeit_date

\* The ACTIVE loans; every loan is on the one item
ActiveLoans == {l \in DOMAIN loans : is_loan_active(loans[l])}

\* C28 One active loan per item: at most one loan on the item is ACTIVE, and
\* a create_pawn_loan request made while the item backs an ACTIVE loan is
\* rejected and stores nothing.
C28_OneActiveLoanPerItem ==
    [][/\ Cardinality(ActiveLoans)' <= 1
       /\ (/\ result'.op = "create_pawn_loan"
           /\ ActiveLoans # {})
          => (result'.outcome = "error" /\ loans' = loans)]_vars

\* C29 Loan and item status agree in every state a request can observe: the
\* item is REDEEMED exactly when the loan on it is REDEEMED, and FORFEITED
\* exactly when that loan is FORFEITED.
C29_LoanItemStatusAgree ==
    \A l \in DOMAIN loans :
        /\ item_status = "redeemed" <=> loans[l].loan_status = "redeemed"
        /\ item_status = "forfeited" <=> loans[l].loan_status = "forfeited"

\* C30 Projection and engine agree on the payoff amount: a process_payment
\* call on an ACTIVE loan, dated d <= final_forfeit_date, whose amount is
\* calculate_amount_owed_at_date(d) plus the late fee due on d, redeems the
\* loan in full: new_balance 0, no overpayment, loan REDEEMED.
C30_ProjectionPaysOff ==
    [][\A l \in DOMAIN loans, a \in Amounts, lag \in PayDateLags :
          (/\ result'.op = "process_payment"
           /\ is_loan_active(loans[l])
           /\ today - lag <= loans[l].final_forfeit_date
           /\ a = calculate_amount_owed_at_date(loans[l], today - lag)
                    + calculate_late_fee(loans[l], today - lag)
           /\ ProcessPayment(l, a, today - lag))
          => (/\ ~result'.alloc.raised
              /\ result'.alloc.payment_amount = a
              /\ result'.alloc.new_balance = 0
              /\ result'.alloc.overpayment = 0
              /\ loans'[l].loan_status = "redeemed")]_vars

====
